---- MODULE Spec2Model ----
(***************************************************************************)
(* Model of fetch_godot_classes.py: the script that keeps a local mirror   *)
(* of the Godot repository and writes, for every version of VERSIONS, the  *)
(* sorted list of class names found in doc/classes to a catalog file.      *)
(*                                                                         *)
(* Python strings are sequences of one-character strings, so that          *)
(* startswith, endswith, slicing, concatenation and sorting are computed   *)
(* on characters.  A path is a sequence of path components.                *)
(***************************************************************************)
EXTENDS Integers, Sequences, FiniteSets, TLC

\* Number of times the script is run in a row against the same file system.
MaxRuns == 2

-----------------------------------------------------------------------------
(* Program constants, lines 13-16 *)

GODOT_REPOSITORY_URL ==
    <<"h", "t", "t", "p", "s", ":", "/", "/", "g", "i", "t", "h", "u", "b", ".", "c", "o", "m", "/", "g", "o", "d", "o", "t", "e", "n", "g", "i", "n", "e", "/", "g", "o", "d", "o", "t">>

GODOT_REPOSITORY_PATH ==
    <<"g", "o", "d", "o", "t">>

CLASSES_PATH ==
    <<"d", "o", "c", "/", "c", "l", "a", "s", "s", "e", "s">>

VERSIONS ==
    << <<"3", ".", "2">>, <<"3", ".", "3">>, <<"3", ".", "4">>, <<"3", ".", "5">> >>

-----------------------------------------------------------------------------
(* The environment: where the script lives, what the remote holds *)

\* Path(__file__).absolute().parent: the directory that holds the script.
ScriptPath ==
    << <<"s", "c", "r", "i", "p", "t", "s">> >>

\* The mirror directory, as GODOT_REPOSITORY_PATH resolves from ScriptPath.
MirrorPath ==
    Append(ScriptPath, GODOT_REPOSITORY_PATH)

\* Directories the process may be started from.
StartDirs ==
    {<<>>, ScriptPath}

F_Node ==
    <<"N", "o", "d", "e", ".", "x", "m", "l">>

F_GlobalScope ==
    <<"@", "G", "l", "o", "b", "a", "l", "S", "c", "o", "p", "e", ".", "x", "m", "l">>

F_Node2D ==
    <<"N", "o", "d", "e", "2", "D", ".", "x", "m", "l">>

F_readme ==
    <<"r", "e", "a", "d", "m", "e", ".", "m", "d">>

F_a ==
    <<"a", ".", "x", "m", "l">>

F_B ==
    <<"B", ".", "x", "m", "l">>

F_dot ==
    <<".", "x", "m", "l">>

F_xml ==
    <<"x", "m", "l">>

F_atmd ==
    <<"@", "x", ".", "m", "d">>

\* Contents doc/classes may have: empty, the scenario of the specification,
\* and a directory with upper and lower case names, a bare suffix, a name
\* shorter than the suffix and a reserved name without the suffix.
DirContents ==
    { {},
      {F_Node, F_GlobalScope, F_Node2D, F_readme},
      {F_a, F_B, F_dot, F_xml, F_atmd} }

VersionSet ==
    {VERSIONS[k] : k \in 1..Len(VERSIONS)}

-----------------------------------------------------------------------------
(* Python string operations *)

\* ord(c) for the characters that occur in file names.
Ord(c) ==
    CASE c = "." -> 46 [] c = "2" -> 50 [] c = "@" -> 64 [] c = "B" -> 66
      [] c = "D" -> 68 [] c = "G" -> 71 [] c = "N" -> 78 [] c = "S" -> 83
      [] c = "a" -> 97 [] c = "b" -> 98 [] c = "c" -> 99 [] c = "d" -> 100
      [] c = "e" -> 101 [] c = "l" -> 108 [] c = "m" -> 109 [] c = "o" -> 111
      [] c = "p" -> 112 [] c = "r" -> 114 [] c = "x" -> 120

\* str.startswith
StartsWith(s, prefix) ==
    /\ Len(s) >= Len(prefix)
    /\ SubSeq(s, 1, Len(prefix)) = prefix

\* str.endswith
EndsWith(s, suffix) ==
    /\ Len(s) >= Len(suffix)
    /\ SubSeq(s, Len(s) - Len(suffix) + 1, Len(s)) = suffix

\* s[:-4]
DropLast4(s) ==
    IF Len(s) > 4 THEN SubSeq(s, 1, Len(s) - 4) ELSE <<>>

\* str.__lt__: lexicographic order on code points
RECURSIVE StrLess(_, _)
StrLess(a, b) ==
    IF a = <<>> THEN b # <<>>
    ELSE IF b = <<>> THEN FALSE
    ELSE IF Head(a) = Head(b) THEN StrLess(Tail(a), Tail(b))
    ELSE Ord(Head(a)) < Ord(Head(b))

RECURSIVE InsertSorted(_, _)
InsertSorted(x, s) ==
    IF s = <<>> THEN <<x>>
    ELSE IF StrLess(x, Head(s)) THEN <<x>> \o s
    ELSE <<Head(s)>> \o InsertSorted(x, Tail(s))

RECURSIVE SortedOf(_)
SortedOf(names) ==
    IF names = <<>> THEN <<>>
    ELSE InsertSorted(Head(names), SortedOf(Tail(names)))

\* classes_names.sort() left out
SortNamesUnsorted(names) ==
    names

\* classes_names.sort(), line 53
SortNames(names) ==
    SortedOf(names)

\* the test of line 51 with the suffix test left out
KeepFileNoSuffix(file_name) ==
    ~StartsWith(file_name, <<"@">>)

\* the test of line 51
KeepFile(file_name) ==
    /\ ~StartsWith(file_name, <<"@">>)
    /\ EndsWith(file_name, <<".", "x", "m", "l">>)

\* the loop of lines 49-52 over the files in the order glob yields them
RECURSIVE CollectNames(_)
CollectNames(globbed) ==
    IF globbed = <<>> THEN <<>>
    ELSE IF KeepFile(Head(globbed))
         THEN <<DropLast4(Head(globbed))>> \o CollectNames(Tail(globbed))
         ELSE CollectNames(Tail(globbed))

\* The orders in which glob may yield the files of a directory.
RECURSIVE GlobOrders(_)
GlobOrders(S) ==
    IF S = {} THEN {<<>>}
    ELSE UNION {{<<f>> \o rest : rest \in GlobOrders(S \ {f})} : f \in S}

\* one name for every version
CatalogNameShared(v) ==
    <<"g", "o", "d", "o", "t", "_", "c", "l", "a", "s", "s", "e", "s", "-">> \o <<".", "t", "x", "t">>

\* the versions in reverse order
VersionAtReversed(k) ==
    VERSIONS[Len(VERSIONS) + 1 - k]

\* the k-th version taken by "for version in VERSIONS", line 40
VersionAt(k) ==
    VERSIONS[k]

\* f"godot_classes-{version}.txt", line 41
CatalogName(v) ==
    <<"g", "o", "d", "o", "t", "_", "c", "l", "a", "s", "s", "e", "s", "-">> \o v \o <<".", "t", "x", "t">>

\* the loop of lines 59-60
RECURSIVE RenderEntries(_)
RenderEntries(names) ==
    IF names = <<>> THEN <<>>
    ELSE <<" ", " ", " ", " ", "\"">> \o Head(names) \o <<"\"", ",", "\n">> \o RenderEntries(Tail(names))

\* the loop of lines 59-60 with a separator between entries only
RECURSIVE RenderEntriesSep(_)
RenderEntriesSep(names) ==
    IF names = <<>> THEN <<>>
    ELSE IF Tail(names) = <<>> THEN <<" ", " ", " ", " ", "\"">> \o Head(names) \o <<"\"", "\n">>
    ELSE <<" ", " ", " ", " ", "\"">> \o Head(names) \o <<"\"", ",", "\n">> \o RenderEntriesSep(Tail(names))

RenderNoLastComma(v, names) ==
    <<"/", "/", " ", "T", "h", "i", "s", " ", "f", "i", "l", "e", " ", "w", "a", "s", " ", "a", "u", "t", "o", "m", "a", "t", "i", "c", "a", "l", "l", "y", " ", "g", "e", "n", "e", "r", "a", "t", "e", "d", " ", "f", "r", "o", "m", " ", "t", "h", "e", " ", "f", "i", "l", "e", " ", "n", "a", "m", "e", "s", " ", "a", "t", " ">>
        \o GODOT_REPOSITORY_URL \o <<"/", "t", "r", "e", "e", "/">> \o v \o <<"/", "d", "o", "c", "/", "c", "l", "a", "s", "s", "e", "s", "\n">>
        \o <<"[", "\n">>
        \o RenderEntriesSep(names)
        \o <<"]">>

\* file_content, lines 56-61
Render(v, names) ==
    <<"/", "/", " ", "T", "h", "i", "s", " ", "f", "i", "l", "e", " ", "w", "a", "s", " ", "a", "u", "t", "o", "m", "a", "t", "i", "c", "a", "l", "l", "y", " ", "g", "e", "n", "e", "r", "a", "t", "e", "d", " ", "f", "r", "o", "m", " ", "t", "h", "e", " ", "f", "i", "l", "e", " ", "n", "a", "m", "e", "s", " ", "a", "t", " ">>
        \o GODOT_REPOSITORY_URL \o <<"/", "t", "r", "e", "e", "/">> \o v \o <<"/", "d", "o", "c", "/", "c", "l", "a", "s", "s", "e", "s", "\n">>
        \o <<"[", "\n">>
        \o RenderEntries(names)
        \o <<"]">>

\* one "-t <version>" pair per version, lines 29-31
RECURSIVE TrackArgs(_)
TrackArgs(vs) ==
    IF vs = <<>> THEN <<>>
    ELSE << <<"-", "t">>, Head(vs) >> \o TrackArgs(Tail(vs))

\* git remote add without the -t options
RemoteAddArgsUntracked ==
    << <<"g", "i", "t">>, <<"r", "e", "m", "o", "t", "e">>, <<"a", "d", "d">> >>
        \o << <<"o", "r", "i", "g", "i", "n">>, GODOT_REPOSITORY_URL >>

\* git_remote_add_args, lines 28-33
RemoteAddArgs ==
    << <<"g", "i", "t">>, <<"r", "e", "m", "o", "t", "e">>, <<"a", "d", "d">> >>
        \o TrackArgs(VERSIONS)
        \o << <<"o", "r", "i", "g", "i", "n">>, GODOT_REPOSITORY_URL >>

\* ["git", "init"], line 26
InitArgs ==
    << <<"g", "i", "t">>, <<"i", "n", "i", "t">> >>

\* ["git", "fetch", "--depth", "1"], line 36
FetchArgs ==
    << <<"g", "i", "t">>, <<"f", "e", "t", "c", "h">>, <<"-", "-", "d", "e", "p", "t", "h">>, <<"1">> >>

\* ["git", "checkout", version], line 45
CheckoutArgs(v) ==
    << <<"g", "i", "t">>, <<"c", "h", "e", "c", "k", "o", "u", "t">>, v >>

-----------------------------------------------------------------------------
(* State *)

VARIABLES
    pc,                   \* the line the script is about to execute
    cwd,                  \* the process working directory (os.chdir)
    script_path,          \* line 19
    version,              \* the loop variable of lines 29 and 40
    vi,                   \* how many versions the loop of line 40 has taken
    git_remote_add_args,  \* lines 28-33
    godot_classes_file,   \* line 41
    classes_names,        \* lines 48-53
    file_content,         \* lines 56-61
    status,               \* the value of the last subprocess.call, discarded
    dirs,                 \* the directories that exist
    tree,                 \* the file names in doc/classes of the mirror
    repo,                 \* how far the mirror is set up as a repository
    files,                \* the text files written so far: path -> content
    remote,               \* the files of doc/classes in each remote branch
    checkoutOk,           \* whether the branch of a version can be checked out
    trace,                \* the outside actions of the current run, in order
    run,                  \* the number of the current run
    mirrorAtStart,        \* whether the mirror existed when the run started
    treeAtStart,          \* the file names in doc/classes when the run started
    prevFiles             \* the text files as the previous run left them

vars ==
    << pc, cwd, script_path, version, vi, git_remote_add_args,
       godot_classes_file, classes_names, file_content, status, dirs, tree,
       repo, files, remote, checkoutOk, trace, run, mirrorAtStart, treeAtStart,
       prevFiles >>

locals ==
    << script_path, version, vi, git_remote_add_args, godot_classes_file,
       classes_names, file_content >>

env ==
    << remote, checkoutOk, run, mirrorAtStart, treeAtStart, prevFiles >>

\* One outside action: what was done, on what, from which directory, while
\* "version" was bound to what, and the exit status of a git command.
Event(op, arg, rc) ==
    [op |-> op, arg |-> arg, cwd |-> cwd, version |-> version, rc |-> rc]

\* The state of a fresh interpreter: no variable of the script is bound.
FreshProcess ==
    /\ pc = "L19"
    /\ cwd \in StartDirs
    /\ script_path = <<>>
    /\ version = <<>>
    /\ vi = 0
    /\ git_remote_add_args = <<>>
    /\ godot_classes_file = <<>>
    /\ classes_names = <<>>
    /\ file_content = <<>>
    /\ status = 0
    /\ trace = <<>>

Init ==
    /\ FreshProcess
    /\ checkoutOk \in [VersionSet -> BOOLEAN]
    /\ remote \in [VersionSet -> DirContents]
    \* the script never sees the files of a branch it cannot check out
    /\ \A v \in VersionSet : ~checkoutOk[v] => remote[v] = {}
    /\ \/ /\ dirs = {ScriptPath}
          /\ tree = {}
          /\ repo = "none"
       \/ /\ dirs = {ScriptPath, MirrorPath}
          /\ tree \in DirContents
          /\ repo = "fetched"
    /\ files = <<>>
    /\ run = 1
    /\ mirrorAtStart = (MirrorPath \in dirs)
    /\ treeAtStart = tree
    /\ prevFiles = <<>>

-----------------------------------------------------------------------------
(* The script, statement by statement *)

\* lines 19-20: script_path = ...; os.chdir(script_path)
Start ==
    /\ pc = "L19"
    /\ script_path' = ScriptPath
    /\ cwd' = ScriptPath
    /\ pc' = "L22"
    /\ UNCHANGED << version, vi, git_remote_add_args, godot_classes_file,
                    classes_names, file_content, status, dirs, tree, repo,
                    files, trace >>
    /\ UNCHANGED env

\* lines 22-24 with the fetch of line 36 outside the if block
CheckMirrorThenFetch ==
    /\ pc = "L22"
    /\ IF Append(cwd, GODOT_REPOSITORY_PATH) \notin dirs
       THEN /\ dirs' = dirs \cup {Append(cwd, GODOT_REPOSITORY_PATH)}
            /\ cwd' = Append(cwd, GODOT_REPOSITORY_PATH)
            /\ trace' = Append(trace,
                               Event("mkdir", Append(cwd, GODOT_REPOSITORY_PATH), 0))
            /\ pc' = "L26"
       ELSE /\ pc' = "L36"
            /\ UNCHANGED << dirs, cwd, trace >>
    /\ UNCHANGED << locals, status, tree, repo, files >>
    /\ UNCHANGED env

\* lines 22-24: if not Path(...).exists(): os.mkdir(...); os.chdir(...)
CheckMirror ==
    /\ pc = "L22"
    /\ IF Append(cwd, GODOT_REPOSITORY_PATH) \notin dirs
       THEN /\ dirs' = dirs \cup {Append(cwd, GODOT_REPOSITORY_PATH)}
            /\ cwd' = Append(cwd, GODOT_REPOSITORY_PATH)
            /\ trace' = Append(trace,
                               Event("mkdir", Append(cwd, GODOT_REPOSITORY_PATH), 0))
            /\ pc' = "L26"
       ELSE /\ pc' = "L38"
            /\ UNCHANGED << dirs, cwd, trace >>
    /\ UNCHANGED << locals, status, tree, repo, files >>
    /\ UNCHANGED env

\* line 26: subprocess.call(["git", "init"]); the result is dropped
GitInit ==
    /\ pc = "L26"
    /\ \E ok \in BOOLEAN :
          IF ok /\ cwd = MirrorPath
          THEN repo' = "inited" /\ status' = 0
          ELSE repo' = repo /\ status' = 1
    /\ trace' = Append(trace, Event("git", InitArgs, status'))
    /\ pc' = "L28"
    /\ UNCHANGED << locals, cwd, dirs, tree, files >>
    /\ UNCHANGED env

\* lines 28-34: build the arguments, subprocess.call(git_remote_add_args)
GitRemoteAdd ==
    /\ pc = "L28"
    /\ git_remote_add_args' = RemoteAddArgs
    /\ version' = VERSIONS[Len(VERSIONS)]
    /\ \E ok \in BOOLEAN :
          IF ok /\ cwd = MirrorPath /\ repo = "inited"
          THEN repo' = "remote" /\ status' = 0
          ELSE repo' = repo /\ status' = 1
    /\ trace' = Append(trace,
                       [Event("git", RemoteAddArgs, status')
                            EXCEPT !.version = VERSIONS[Len(VERSIONS)]])
    /\ pc' = "L36"
    /\ UNCHANGED << script_path, vi, godot_classes_file, classes_names,
                    file_content, cwd, dirs, tree, files >>
    /\ UNCHANGED env

\* line 36: subprocess.call(["git", "fetch", "--depth", "1"])
GitFetch ==
    /\ pc = "L36"
    /\ \E ok \in BOOLEAN :
          IF ok /\ cwd = MirrorPath /\ repo = "remote"
          THEN repo' = "fetched" /\ status' = 0
          ELSE repo' = repo /\ status' = 1
    /\ trace' = Append(trace, Event("git", FetchArgs, status'))
    /\ pc' = "L38"
    /\ UNCHANGED << locals, cwd, dirs, tree, files >>
    /\ UNCHANGED env

\* line 38 left out
ChdirScriptOmitted ==
    /\ pc = "L38"
    /\ pc' = "L40"
    /\ UNCHANGED << locals, cwd, status, dirs, tree, repo, files, trace >>
    /\ UNCHANGED env

\* line 38: os.chdir(script_path)
ChdirScript ==
    /\ pc = "L38"
    /\ cwd' = script_path
    /\ pc' = "L40"
    /\ UNCHANGED << locals, status, dirs, tree, repo, files, trace >>
    /\ UNCHANGED env

\* lines 40-41: the next version of VERSIONS, or the end of the script
LoopHead ==
    /\ pc = "L40"
    /\ IF vi < Len(VERSIONS)
       THEN /\ vi' = vi + 1
            /\ version' = VersionAt(vi + 1)
            /\ godot_classes_file' = CatalogName(VersionAt(vi + 1))
            /\ pc' = "L44"
       ELSE /\ pc' = "done"
            /\ UNCHANGED << vi, version, godot_classes_file >>
    /\ UNCHANGED << script_path, git_remote_add_args, classes_names,
                    file_content, cwd, status, dirs, tree, repo, files, trace >>
    /\ UNCHANGED env

\* line 44: os.chdir(GODOT_REPOSITORY_PATH), relative to the working
\* directory; raises when there is no such directory
ChdirMirror ==
    /\ pc = "L44"
    /\ IF Append(cwd, GODOT_REPOSITORY_PATH) \in dirs
       THEN cwd' = Append(cwd, GODOT_REPOSITORY_PATH) /\ pc' = "L45"
       ELSE cwd' = cwd /\ pc' = "raised"
    /\ UNCHANGED << locals, status, dirs, tree, repo, files, trace >>
    /\ UNCHANGED env

\* line 45 with subprocess.check_call: a failing checkout raises
GitCheckoutChecked ==
    /\ pc = "L45"
    /\ IF checkoutOk[version] /\ repo = "fetched" /\ cwd = MirrorPath
       THEN tree' = remote[version] /\ status' = 0 /\ pc' = "L48"
       ELSE tree' = tree /\ status' = 1 /\ pc' = "raised"
    /\ trace' = Append(trace, Event("git", CheckoutArgs(version), status'))
    /\ UNCHANGED << locals, cwd, dirs, repo, files >>
    /\ UNCHANGED env

\* line 45: subprocess.call(["git", "checkout", version]); on success the
\* working tree holds the files of that branch, on failure it stays as it is
GitCheckout ==
    /\ pc = "L45"
    /\ IF checkoutOk[version] /\ repo = "fetched" /\ cwd = MirrorPath
       THEN tree' = remote[version] /\ status' = 0
       ELSE tree' = tree /\ status' = 1
    /\ trace' = Append(trace, Event("git", CheckoutArgs(version), status'))
    /\ pc' = "L48"
    /\ UNCHANGED << locals, cwd, dirs, repo, files >>
    /\ UNCHANGED env

\* What Path(CLASSES_PATH).glob("*") finds from the working directory.
Globbed ==
    IF cwd = MirrorPath THEN tree ELSE {}

\* lines 48-53: collect the names in glob order, then sort them
Enumerate ==
    /\ pc = "L48"
    /\ \E order \in GlobOrders(Globbed) :
          classes_names' = SortNames(CollectNames(order))
    /\ trace' = Append(trace, Event("glob", Append(cwd, CLASSES_PATH), 0))
    /\ pc' = "L54"
    /\ UNCHANGED << script_path, version, vi, git_remote_add_args,
                    godot_classes_file, file_content, cwd, status, dirs, tree,
                    repo, files >>
    /\ UNCHANGED env

\* line 54: os.chdir(script_path)
ChdirBack ==
    /\ pc = "L54"
    /\ cwd' = script_path
    /\ pc' = "L56"
    /\ UNCHANGED << locals, status, dirs, tree, repo, files, trace >>
    /\ UNCHANGED env

\* lines 56-61
RenderContent ==
    /\ pc = "L56"
    /\ file_content' = Render(version, classes_names)
    /\ pc' = "L62"
    /\ UNCHANGED << script_path, version, vi, git_remote_add_args,
                    godot_classes_file, classes_names, cwd, status, dirs, tree,
                    repo, files, trace >>
    /\ UNCHANGED env

\* What is in the file at path p, "" when there is no such file.
ContentAt(p) ==
    IF p \in DOMAIN files THEN files[p] ELSE <<>>

\* a write that opens the file for appending
WrittenAppending(old, new) ==
    old \o new

\* write_text opens the file for writing: the old content is dropped
Written(old, new) ==
    new

\* lines 62-63: Path(godot_classes_file).absolute().write_text(file_content)
WriteFile ==
    /\ pc = "L62"
    /\ LET file_path == Append(cwd, godot_classes_file)
       IN  /\ files' = (file_path :> Written(ContentAt(file_path), file_content))
                           @@ files
           /\ trace' = Append(trace, Event("write", file_path, 0))
    /\ pc' = "L40"
    /\ UNCHANGED << locals, cwd, status, dirs, tree, repo >>
    /\ UNCHANGED env

\* The script is run again; the file system is as the last run left it.
Rerun ==
    /\ pc = "done"
    /\ run < MaxRuns
    /\ run' = run + 1
    /\ prevFiles' = files
    /\ mirrorAtStart' = (MirrorPath \in dirs)
    /\ treeAtStart' = tree
    /\ pc' = "L19"
    /\ cwd' \in StartDirs
    /\ script_path' = <<>>
    /\ version' = <<>>
    /\ vi' = 0
    /\ git_remote_add_args' = <<>>
    /\ godot_classes_file' = <<>>
    /\ classes_names' = <<>>
    /\ file_content' = <<>>
    /\ status' = 0
    /\ trace' = <<>>
    /\ UNCHANGED << dirs, tree, repo, files, remote, checkoutOk >>

Next ==
    \/ Start
    \/ CheckMirror
    \/ GitInit
    \/ GitRemoteAdd
    \/ GitFetch
    \/ ChdirScript
    \/ LoopHead
    \/ ChdirMirror
    \/ GitCheckout
    \/ Enumerate
    \/ ChdirBack
    \/ RenderContent
    \/ WriteFile
    \/ Rerun

Spec ==
    Init /\ [][Next]_vars

-----------------------------------------------------------------------------
(* Reading a catalog file back *)

\* The lines of a text, as split at every line feed.
Lines(s) ==
    LET NL == {i \in 1..Len(s) : s[i] = "\n"}
        n == Cardinality(NL)
        At(k) == IF k = 0 THEN 0
                 ELSE IF k = n + 1 THEN Len(s) + 1
                 ELSE CHOOSE i \in NL : Cardinality({j \in NL : j <= i}) = k
    IN  [k \in 1..(n + 1) |-> SubSeq(s, At(k - 1) + 1, At(k) - 1)]

\* line is four spaces, a quoted name, a comma
IsEntryLine(line) ==
    /\ Len(line) >= 7
    /\ \A k \in 1..4 : line[k] = " "
    /\ line[5] = "\""
    /\ line[Len(line) - 1] = "\""
    /\ line[Len(line)] = ","

\* The quoted names of a catalog, in the order of the file: what stands
\* between the quotes of the lines after the line of the opening bracket and
\* before the last line.
CatalogEntries(s) ==
    LET L == Lines(s)
    IN  [k \in 1..(Len(L) - 3) |-> SubSeq(L[k + 2], 6, Len(L[k + 2]) - 2)]

EntrySet(s) ==
    LET E == CatalogEntries(s)
    IN  {E[k] : k \in 1..Len(E)}

\* The provenance comment of the catalog of version v, without line feed.
ProvenanceLine(v) ==
    <<"/", "/", " ", "T", "h", "i", "s", " ", "f", "i", "l", "e", " ", "w", "a", "s", " ", "a", "u", "t", "o", "m", "a", "t", "i", "c", "a", "l", "l", "y", " ", "g", "e", "n", "e", "r", "a", "t", "e", "d", " ", "f", "r", "o", "m", " ", "t", "h", "e", " ", "f", "i", "l", "e", " ", "n", "a", "m", "e", "s", " ", "a", "t", " ", "h", "t", "t", "p", "s", ":", "/", "/", "g", "i", "t", "h", "u", "b", ".", "c", "o", "m", "/", "g", "o", "d", "o", "t", "e", "n", "g", "i", "n", "e", "/", "g", "o", "d", "o", "t", "/", "t", "r", "e", "e", "/">>
        \o v \o <<"/", "d", "o", "c", "/", "c", "l", "a", "s", "s", "e", "s">>

\* The place of the catalog of version v.
CatalogPath(v) ==
    << <<"s", "c", "r", "i", "p", "t", "s">>, <<"g", "o", "d", "o", "t", "_", "c", "l", "a", "s", "s", "e", "s", "-">> \o v \o <<".", "t", "x", "t">> >>

\* A file name that passes both tests of the enumeration.
PassesTests(f) ==
    /\ f[1] # "@"
    /\ Len(f) >= 4
    /\ f[Len(f) - 3] = "." /\ f[Len(f) - 2] = "x"
    /\ f[Len(f) - 1] = "m" /\ f[Len(f)] = "l"

\* E holds exactly the names of the files of D that pass both tests,
\* each without its last four characters.
IsCatalogOf(E, D) ==
    /\ \A f \in D : PassesTests(f) <=> \E e \in E : e \o <<".", "x", "m", "l">> = f
    /\ \A e \in E : e \o <<".", "x", "m", "l">> \in D

\* a comes strictly before b in lexicographic order of code points
LexLess(a, b) ==
    \E k \in 1..Len(b) :
        /\ \A j \in 1..(k - 1) : j <= Len(a) /\ a[j] = b[j]
        /\ (k > Len(a) \/ Ord(a[k]) < Ord(b[k]))

\* The script has just written the catalog of the current version.
JustWritten ==
    pc = "L40" /\ vi >= 1

\* The file the last write went to.
WrittenPath ==
    trace[Len(trace)].arg

IsGit(e, sub) ==
    e.op = "git" /\ e.arg[2] = sub

IsLoopEvent(e) ==
    IsGit(e, <<"c", "h", "e", "c", "k", "o", "u", "t">>) \/ e.op = "glob" \/ e.op = "write"

\* The checkouts, enumerations and writes of the current run, in order.
LoopEvents ==
    SelectSeq(trace, IsLoopEvent)

\* The checkout of the k-th version has happened in this run and succeeded.
CheckoutSucceeded(k) ==
    /\ Len(LoopEvents) >= 3 * k - 2
    /\ LoopEvents[3 * k - 2].rc = 0

\* The files doc/classes holds after the checkout of the k-th version:
\* those of the last version up to k whose checkout succeeded, or else
\* those it held when the run started.
RECURSIVE TreeAfter(_)
TreeAfter(k) ==
    IF k = 0 THEN treeAtStart
    ELSE IF CheckoutSucceeded(k) THEN remote[VERSIONS[k]]
    ELSE TreeAfter(k - 1)

-----------------------------------------------------------------------------
(* Claims *)

\* C1: the entries written to the catalog of a version are exactly the names
\* of the files of doc/classes that do not start with '@' and end with
\* '.xml', each without its last four characters; Node.xml, @GlobalScope.xml,
\* Node2D.xml, readme.md gives exactly Node and Node2D.
C1_EntriesAreFilteredNames ==
    JustWritten =>
        /\ IsCatalogOf(EntrySet(files[WrittenPath]), tree)
        /\ status = 0 => IsCatalogOf(EntrySet(files[WrittenPath]), remote[version])
        /\ tree = {F_Node, F_GlobalScope, F_Node2D, F_readme}
              => EntrySet(files[WrittenPath]) = {<<"N", "o", "d", "e">>, <<"N", "o", "d", "e", "2", "D">>}

C1_Witness ==
    /\ JustWritten
    /\ status = 0
    /\ tree = {F_Node, F_GlobalScope, F_Node2D, F_readme}
    /\ EntrySet(files[WrittenPath]) = {<<"N", "o", "d", "e">>, <<"N", "o", "d", "e", "2", "D">>}

\* C2: in every catalog written, the entries are in strictly increasing
\* lexicographic order: sorted, and no entry twice.
C2_EntriesStrictlyIncreasing ==
    JustWritten =>
        LET E == CatalogEntries(files[WrittenPath])
        IN  \A k \in 1..(Len(E) - 1) : LexLess(E[k], E[k + 1])

C2_Witness ==
    /\ JustWritten
    /\ CatalogEntries(files[WrittenPath]) = << <<>>, <<"B">>, <<"a">> >>

\* C3 as stated: after a second run against the same remote, with the same
\* outcome of every checkout, every catalog is what the first run left.
C3_SecondRunIdentical ==
    (pc = "done" /\ run >= 2) => files = prevFiles

\* C3 amended: after a second run, the same catalogs exist, and the catalog
\* of a version is what the first run left whenever the checkout of that
\* version or of an earlier version of the run succeeds, or no checkout
\* succeeds at all; a write replaces the content and never appends to it.
C3_SecondRunIdenticalAfterCheckout ==
    (pc = "done" /\ run >= 2) =>
        /\ DOMAIN files = DOMAIN prevFiles
        /\ \A k \in 1..Len(VERSIONS) :
              (\/ \E j \in 1..k : CheckoutSucceeded(j)
               \/ \A j \in 1..Len(VERSIONS) : ~CheckoutSucceeded(j))
                 => files[CatalogPath(VERSIONS[k])]
                        = prevFiles[CatalogPath(VERSIONS[k])]

C3_Witness ==
    /\ pc = "done"
    /\ run = 2
    /\ CheckoutSucceeded(1)
    /\ ~CheckoutSucceeded(2)
    /\ EntrySet(files[CatalogPath(VERSIONS[2])]) = {<<"N", "o", "d", "e">>, <<"N", "o", "d", "e", "2", "D">>}
    /\ files = prevFiles

\* C4 as stated: the versions of a run get distinct files, and each file
\* holds the entries of its own version only.
C4_EachFileOwnVersion ==
    pc = "done" =>
        /\ Cardinality({CatalogPath(VERSIONS[k]) : k \in 1..Len(VERSIONS)})
              = Len(VERSIONS)
        /\ \A k \in 1..Len(VERSIONS) :
              /\ CatalogPath(VERSIONS[k]) \in DOMAIN files
              /\ IsCatalogOf(EntrySet(files[CatalogPath(VERSIONS[k])]),
                             remote[VERSIONS[k]])

\* C4 amended: the versions of a run get distinct files, one each, and each
\* file holds the entries enumerated in the iteration of its own version:
\* those of its own version when its checkout succeeded, otherwise those of
\* the working tree as the last successful checkout (or the start of the
\* run) left it.
C4_EachFileOwnIteration ==
    pc = "done" =>
        /\ Cardinality(DOMAIN files) = Len(VERSIONS)
        /\ \A k \in 1..Len(VERSIONS) :
              /\ CatalogPath(VERSIONS[k]) \in DOMAIN files
              /\ IsCatalogOf(EntrySet(files[CatalogPath(VERSIONS[k])]),
                             TreeAfter(k))

C4_Witness ==
    /\ pc = "done"
    /\ CheckoutSucceeded(1)
    /\ CheckoutSucceeded(2)
    /\ EntrySet(files[CatalogPath(VERSIONS[1])]) = {<<"N", "o", "d", "e">>, <<"N", "o", "d", "e", "2", "D">>}
    /\ EntrySet(files[CatalogPath(VERSIONS[2])]) = {<<>>, <<"B">>, <<"a">>}

\* C5 as stated: when the mirror exists at the start, no init is attempted,
\* and checkout and fetch proceed.
C5_ExistingMirrorFetches ==
    (pc = "done" /\ mirrorAtStart) =>
        /\ \A k \in 1..Len(trace) :
              ~IsGit(trace[k], <<"i", "n", "i", "t">>) /\ ~IsGit(trace[k], <<"c", "l", "o", "n", "e">>)
        /\ \E k \in 1..Len(trace) : IsGit(trace[k], <<"c", "h", "e", "c", "k", "o", "u", "t">>)
        /\ \E k \in 1..Len(trace) : IsGit(trace[k], <<"f", "e", "t", "c", "h">>)

\* C5 amended: when the mirror exists at the start, the run makes no
\* directory and runs no git init, remote add or fetch; the only git
\* commands are the checkouts, one per version.
C5_ExistingMirrorOnlyCheckouts ==
    mirrorAtStart =>
        /\ \A k \in 1..Len(trace) :
              /\ trace[k].op # "mkdir"
              /\ trace[k].op = "git" => IsGit(trace[k], <<"c", "h", "e", "c", "k", "o", "u", "t">>)
        /\ pc = "done" =>
              Len(SelectSeq(trace, LAMBDA e : e.op = "git")) = Len(VERSIONS)

C5_Witness ==
    /\ mirrorAtStart
    /\ run = 1
    /\ pc = "done"
    /\ Len(SelectSeq(trace, LAMBDA e : e.op = "git")) = Len(VERSIONS)

\* A git command that configures the paths of a sparse checkout.
IsSparseConfig(e) ==
    /\ e.op = "git"
    /\ \/ e.arg[2] = <<"s", "p", "a", "r", "s", "e", "-", "c", "h", "e", "c", "k", "o", "u", "t">>
       \/ \E k \in 1..Len(e.arg) : e.arg[k] = <<"c", "o", "r", "e", ".", "s", "p", "a", "r", "s", "e", "C", "h", "e", "c", "k", "o", "u", "t">>

\* The set-up commands a run has issued before its first checkout.
BeforeFirstCheckout ==
    LET first == CHOOSE k \in 1..Len(trace) :
                    /\ IsGit(trace[k], <<"c", "h", "e", "c", "k", "o", "u", "t">>)
                    /\ \A j \in 1..(k - 1) : ~IsGit(trace[j], <<"c", "h", "e", "c", "k", "o", "u", "t">>)
    IN  SubSeq(trace, 1, first - 1)

FirstCheckoutDone ==
    \E k \in 1..Len(trace) : IsGit(trace[k], <<"c", "h", "e", "c", "k", "o", "u", "t">>)

C7_GitFailureNeverStops ==
    /\ pc # "raised"
    /\ pc = "done" =>
          \A k \in 1..Len(VERSIONS) :
              /\ Len(LoopEvents) >= 3 * k
              /\ LoopEvents[3 * k].op = "write"
              /\ LoopEvents[3 * k].arg = CatalogPath(VERSIONS[k])
              /\ CatalogPath(VERSIONS[k]) \in DOMAIN files
              /\ LET E == EntrySet(files[CatalogPath(VERSIONS[k])])
                 IN  IF CheckoutSucceeded(k)
                     THEN IsCatalogOf(E, remote[VERSIONS[k]])
                     ELSE IF k = 1
                     THEN IsCatalogOf(E, treeAtStart)
                     ELSE E = EntrySet(files[CatalogPath(VERSIONS[k - 1])])

C7_Witness ==
    /\ pc = "done"
    /\ ~mirrorAtStart
    /\ \E k \in 1..Len(trace) : IsGit(trace[k], <<"i", "n", "i", "t">>) /\ trace[k].rc # 0
    /\ Len(LoopEvents) = 3 * Len(VERSIONS)
    /\ \A k \in 1..Len(VERSIONS) : ~CheckoutSucceeded(k)

C7_WitnessLeftover ==
    /\ pc = "done"
    /\ CheckoutSucceeded(1)
    /\ ~CheckoutSucceeded(2)
    /\ CheckoutSucceeded(3)
    /\ EntrySet(files[CatalogPath(VERSIONS[1])]) = {<<"N", "o", "d", "e">>, <<"N", "o", "d", "e", "2", "D">>}
    /\ EntrySet(files[CatalogPath(VERSIONS[2])]) = {<<"N", "o", "d", "e">>, <<"N", "o", "d", "e", "2", "D">>}
    /\ EntrySet(files[CatalogPath(VERSIONS[3])]) = {<<>>, <<"B">>, <<"a">>}
    /\ remote[VERSIONS[2]] = {}

\* C8: a catalog is the provenance line of its version, a line "[", one
\* line per entry made of four spaces, the quoted entry and a comma (the
\* last entry included), and "]" with no line feed after it; with no entry
\* the text after the provenance line is "[", line feed, "]".
C8_CatalogFormat ==
    JustWritten =>
        LET c == files[WrittenPath]
            L == Lines(c)
        IN  /\ Len(L) = Len(classes_names) + 3
            /\ L[1] = ProvenanceLine(version)
            /\ L[2] = <<"[">>
            /\ L[Len(L)] = <<"]">>
            /\ c[Len(c)] = "]"
            /\ \A k \in 1..Len(classes_names) :
                  /\ IsEntryLine(L[k + 2])
                  /\ SubSeq(L[k + 2], 6, Len(L[k + 2]) - 2) = classes_names[k]
            /\ tree = {} =>
                  SubSeq(c, Len(ProvenanceLine(version)) + 2, Len(c)) = <<"[", "\n", "]">>

C8_Witness ==
    /\ JustWritten
    /\ classes_names = << <<"N", "o", "d", "e">>, <<"N", "o", "d", "e", "2", "D">> >>
    /\ Len(Lines(files[WrittenPath])) = 5
    /\ Lines(files[WrittenPath])[4] = <<" ", " ", " ", " ", "\"", "N", "o", "d", "e", "2", "D", "\"", ",">>

C8_WitnessEmpty ==
    /\ JustWritten
    /\ tree = {}
    /\ files[WrittenPath] = ProvenanceLine(version) \o <<"\n", "[", "\n", "]">>

\* C9: the versions are processed one after another in the order of
\* VERSIONS, each by a checkout, then an enumeration, then a write; no
\* step of a version comes before the write of the version before it.
C9_SequentialInOrder ==
    /\ Len(LoopEvents) <= 3 * Len(VERSIONS)
    /\ pc = "done" => Len(LoopEvents) = 3 * Len(VERSIONS)
    /\ \A n \in 1..Len(LoopEvents) :
          LET e == LoopEvents[n]
              v == VERSIONS[((n - 1) \div 3) + 1]
          IN  CASE (n - 1) % 3 = 0 ->
                      IsGit(e, <<"c", "h", "e", "c", "k", "o", "u", "t">>) /\ e.arg[3] = v
                [] (n - 1) % 3 = 1 ->
                      e.op = "glob" /\ e.version = v
                [] (n - 1) % 3 = 2 ->
                      e.op = "write" /\ e.arg = CatalogPath(v)

C9_Witness ==
    /\ pc = "done"
    /\ Len(LoopEvents) = 3 * Len(VERSIONS)
    /\ LoopEvents[3 * Len(VERSIONS)].arg = CatalogPath(<<"3", ".", "5">>)

\* C10: whether or not the mirror was made by this run, the working
\* directory is the directory of the script at the start of every iteration
\* and at every write, and the mirror at every checkout and enumeration;
\* every catalog is in the directory of the script, and doc/classes is
\* resolved inside the mirror.
C10_WorkingDirectory ==
    /\ pc \in {"L40", "L44", "L56", "L62"} => cwd = << <<"s", "c", "r", "i", "p", "t", "s">> >>
    /\ pc \in {"L45", "L48", "L54"} => cwd = << <<"s", "c", "r", "i", "p", "t", "s">>, <<"g", "o", "d", "o", "t">> >>
    /\ \A p \in DOMAIN files : Len(p) = 2 /\ p[1] = <<"s", "c", "r", "i", "p", "t", "s">>
    /\ \A k \in 1..Len(trace) :
          /\ trace[k].op = "write" => trace[k].cwd = << <<"s", "c", "r", "i", "p", "t", "s">> >>
          /\ IsGit(trace[k], <<"c", "h", "e", "c", "k", "o", "u", "t">>)
                => trace[k].cwd = << <<"s", "c", "r", "i", "p", "t", "s">>, <<"g", "o", "d", "o", "t">> >>
          /\ trace[k].op = "glob" =>
                trace[k].arg = << <<"s", "c", "r", "i", "p", "t", "s">>, <<"g", "o", "d", "o", "t">>, <<"d", "o", "c", "/", "c", "l", "a", "s", "s", "e", "s">> >>

C10_Witness ==
    /\ ~mirrorAtStart
    /\ pc = "done"
    /\ \E k \in 1..Len(trace) : trace[k].op = "mkdir"
    /\ Cardinality(DOMAIN files) = Len(VERSIONS)

C10_WitnessExisting ==
    /\ mirrorAtStart
    /\ pc = "L62"
    /\ vi = 1

====
